---- MODULE Spec2Model ----
(***************************************************************************)
(* Model of the document retrieval and chunking pipeline of the           *)
(* repository: SimpleDocRetrieval (src/simple_doc_retrieval.py) and the   *)
(* Streamlit scripts that drive it (src/combined_app.py, src/app.py).     *)
(*                                                                         *)
(* A text is a sequence of one-character strings; a chunk list is a       *)
(* sequence of texts.                                                      *)
(***************************************************************************)
EXTENDS Integers, Sequences, FiniteSets, TLC

VARIABLES
    chunk_size,     \* SimpleDocRetrieval.chunk_size
    chunk_overlap,  \* SimpleDocRetrieval.chunk_overlap
    documents,      \* SimpleDocRetrieval.documents: file name -> record
    last,           \* the last call or user event: operation, arguments, result
    gemini_handler, \* st.session_state.gemini_handler: None or its api_key
    doc_retrieval,  \* st.session_state.doc_retrieval: None or its api_key
    processed_files,\* st.session_state.processed_files
    chat_history,   \* st.session_state.chat_history
    shown,          \* the counts the Knowledge Base Stats section last wrote
    crew_agents,    \* st.session_state.crew_agents and what its rag_tool holds
    use_crew,       \* st.session_state.use_crew
    rag_manager,    \* st.session_state.rag_manager: registries and tools
    stale           \* the sources ingested before the latest clear and not since

storeVars == <<chunk_size, chunk_overlap, documents>>
crewVars == <<crew_agents, use_crew, rag_manager, stale>>
appVars == <<gemini_handler, doc_retrieval, processed_files, chat_history, shown,
             crew_agents, use_crew, rag_manager, stale>>
vars == <<chunk_size, chunk_overlap, documents, last,
          gemini_handler, doc_retrieval, processed_files, chat_history, shown,
          crew_agents, use_crew, rag_manager, stale>>

None == "None"

NoCrew == [exists |-> FALSE, rag_tool |-> {}]
NewCrew == [exists |-> TRUE, rag_tool |-> {}]

EmptyKnowledgeBase ==
    [documents |-> <<>>, web_pages |-> <<>>, youtube_videos |-> <<>>,
     images |-> <<>>, audio |-> <<>>, video |-> <<>>]

NoManager ==
    [exists |-> FALSE, knowledge_base |-> EmptyKnowledgeBase, rag_tool |-> {},
     pdf_tool |-> None, youtube_tool |-> None, website_tool |-> None]
NewManager == [NoManager EXCEPT !.exists = TRUE]

\* src/app.py does not run
NoCrewApp ==
    /\ crew_agents = NoCrew
    /\ use_crew = FALSE
    /\ rag_manager = NoManager
    /\ stale = {}

\* no application runs: the object is used on its own
NoApp ==
    /\ gemini_handler = None
    /\ doc_retrieval = None
    /\ processed_files = <<>>
    /\ chat_history = <<>>
    /\ shown = <<>>
    /\ NoCrewApp

(***************************************************************************)
(* Bounds of the model.                                                    *)
(***************************************************************************)
MaxLen == 5        \* longest text over Alphabet handed to chunk_text
MaxDistinct == 9   \* longest text of pairwise distinct characters
MaxSize == 5       \* largest chunk_size

Alphabet == {"a", "b"}
Letters == <<"a", "b", "c", "d", "e", "f", "g", "h", "i", "j", "k", "l", "m",
             "n", "o", "p", "q", "r", "s", "t", "u", "v", "w", "x", "y", "z">>

Min(a, b) == IF a < b THEN a ELSE b

HelloWorld == <<"h", "e", "l", "l", "o", " ", "w", "o", "r", "l", "d">>

TextsUpTo(n) == UNION {[1..k -> Alphabet] : k \in 0..n}
DistinctTexts == {SubSeq(Letters, 1, Min(k, Len(Letters))) : k \in 0..MaxDistinct}
Texts == TextsUpTo(MaxLen) \cup DistinctTexts \cup {HelloWorld}

\* the configurations that satisfy chunk_size > chunk_overlap >= 0
ValidConfigs == {c \in (1..MaxSize) \X (0..MaxSize) : c[1] > c[2]}

(***************************************************************************)
(* Python primitives used by the chunker.                                  *)
(***************************************************************************)
\* a slice that takes one character too many
Slice_long(text, i, j) == SubSeq(text, i + 1, Min(j + 1, Len(text)))

\* text[i:j] for 0 <= i: the slice saturates at the end of the text
Slice(text, i, j) == SubSeq(text, i + 1, Min(j, Len(text)))

\* text[n:]: the text without its first n characters
Drop(text, n) == SubSeq(text, n + 1, Len(text))

\* the last n characters of the text (text[-n:] for n >= 1), the whole text if
\* it is shorter
LastChars(text, n) == SubSeq(text, IF Len(text) > n THEN Len(text) - n + 1 ELSE 1, Len(text))

\* range(0, stop, step) raises ValueError for a zero step
range_raises(step) == step = 0

\* a loop that leaves out the last, partial, step
range_floor(stop, step) ==
    IF step <= 0 \/ stop <= 0 THEN <<>>
    ELSE [k \in 1..(stop \div step) |-> (k - 1) * step]

\* range(0, stop, step) otherwise: empty for a negative step
range(stop, step) ==
    IF step <= 0 \/ stop <= 0 THEN <<>>
    ELSE [k \in 1..((stop + step - 1) \div step) |-> (k - 1) * step]

(***************************************************************************)
(* SimpleDocRetrieval.chunk_text                                           *)
(***************************************************************************)
\* the loop header raises, unless the empty text returned before it
chunk_text_raises(text, size, overlap) ==
    text # <<>> /\ range_raises(size - overlap)

\* a chunker that advances by chunk_size, ignoring the overlap
chunk_starts_no_overlap(text, size, overlap) ==
    IF text = <<>> THEN <<>> ELSE range(Len(text), size)

\* the window starts the loop visits
chunk_starts(text, size, overlap) ==
    IF text = <<>> THEN <<>> ELSE range(Len(text), size - overlap)

chunk_text(text, size, overlap) ==
    LET starts == chunk_starts(text, size, overlap)
        windows == [k \in DOMAIN starts |-> Slice(text, starts[k], starts[k] + size)]
    IN  SelectSeq(windows, LAMBDA chunk : chunk # <<>>)

(***************************************************************************)
(* The chunker alone: a configured object on which chunk_text is called.   *)
(***************************************************************************)
NoCall == [op |-> "none"]

InitChunk ==
    /\ \E c \in ValidConfigs : chunk_size = c[1] /\ chunk_overlap = c[2]
    /\ documents = <<>>
    /\ last = NoCall
    /\ NoApp

ChunkText(text) ==
    /\ last' = [op |-> "chunk_text", text |-> text,
                raised |-> chunk_text_raises(text, chunk_size, chunk_overlap),
                starts |-> chunk_starts(text, chunk_size, chunk_overlap),
                ret |-> chunk_text(text, chunk_size, chunk_overlap)]
    /\ UNCHANGED <<chunk_size, chunk_overlap, documents>>
    /\ UNCHANGED appVars

NextChunk == \E text \in Texts : ChunkText(text)

SpecChunk == InitChunk /\ [][NextChunk]_vars

(***************************************************************************)
(* Files.  A path is a directory and a file name; what is on disk at a     *)
(* path when it is read is a file content: whether the file can be opened  *)
(* and parsed, and its units of text (the pages of a PDF, the paragraphs   *)
(* of a DOCX, the decodable runs of a TXT), each of which may fail.        *)
(***************************************************************************)
Newline == "\n"

Unit(text) == [ok |-> TRUE, text |-> text]
BadUnit == [ok |-> FALSE, text |-> <<>>]
File(units) == [readable |-> TRUE, units |-> units]
Unreadable == [readable |-> FALSE, units |-> <<>>]

FileContents ==
    { Unreadable,
      File(<<>>),
      File(<<Unit(<<>>)>>),
      File(<<Unit(<<"a">>)>>),
      File(<<Unit(<<"a", "b", "c">>)>>),
      File(<<Unit(<<"a", "b">>), Unit(<<"c">>)>>),
      File(<<Unit(<<"a">>), BadUnit>>) }

FileNames == {"a.txt", "B.PDF", "c.docx", "d.exe"}

TempDir == "tmp"
Path(name) == [dir |-> TempDir, name |-> name]

\* os.path.basename
basename(path) == path.name

\* os.path.splitext(path)[1]
splitext(path) ==
    CASE path.name = "a.txt" -> ".txt"
      [] path.name = "b.txt" -> ".txt"
      [] path.name = "B.PDF" -> ".PDF"
      [] path.name = "b.pdf" -> ".pdf"
      [] path.name = "c.docx" -> ".docx"
      [] path.name = "d.exe" -> ".exe"
      [] path.name = "p.png" -> ".png"
      [] path.name = "s.mp3" -> ".mp3"
      [] path.name = "v.mp4" -> ".mp4"
      [] path.name = "q.png" -> ".png"
      [] path.name = "e.pptx" -> ".pptx"
      [] path.name = "n.xyz" -> ".xyz"
      [] OTHER -> ""

\* str.lower on a file extension
lower(ext) ==
    CASE ext = ".PDF" -> ".pdf"
      [] OTHER -> ext

RECURSIVE Concat(_)
\* the concatenation of a sequence of texts
Concat(texts) ==
    IF texts = <<>> THEN <<>> ELSE Head(texts) \o Concat(Tail(texts))

RECURSIVE Join(_, _)
\* sep.join(texts)
Join(sep, texts) ==
    IF texts = <<>> THEN <<>>
    ELSE IF Len(texts) = 1 THEN texts[1]
    ELSE texts[1] \o sep \o Join(sep, Tail(texts))

UnitTexts(content) == [k \in DOMAIN content.units |-> content.units[k].text]
AnyUnitFails(content) == \E k \in DOMAIN content.units : ~content.units[k].ok

(***************************************************************************)
(* SimpleDocRetrieval: extraction.  A result is [none, text]: none is      *)
(* TRUE for Python's None.                                                 *)
(***************************************************************************)
Str(text) == [none |-> FALSE, text |-> text]
NoneResult == [none |-> TRUE, text |-> <<>>]

\* `not value` for an Optional[str]
falsy(value) == value.none \/ value.text = <<>>

\* every page's text followed by a newline; any exception gives ""
extract_from_pdf(content) ==
    IF ~content.readable \/ AnyUnitFails(content) THEN <<>>
    ELSE Concat([k \in DOMAIN content.units |-> content.units[k].text \o <<Newline>>])

\* the file read whole with errors='ignore': what cannot be decoded is dropped
extract_from_txt(content) ==
    IF ~content.readable THEN <<>> ELSE Concat(UnitTexts(content))

\* the paragraphs joined by newlines; any exception gives ""
extract_from_docx(content) ==
    IF ~content.readable \/ AnyUnitFails(content) THEN <<>>
    ELSE Join(<<Newline>>, UnitTexts(content))

\* an extractor that reads a file of any other extension as plain text
extract_text_from_file_lenient(path, content) ==
    LET file_extension == lower(splitext(path))
    IN  CASE file_extension = ".pdf" -> Str(extract_from_pdf(content))
          [] file_extension = ".docx" -> Str(extract_from_docx(content))
          [] OTHER -> Str(extract_from_txt(content))

extract_text_from_file(path, content) ==
    LET file_extension == lower(splitext(path))
    IN  CASE file_extension = ".pdf" -> Str(extract_from_pdf(content))
          [] file_extension = ".txt" -> Str(extract_from_txt(content))
          [] file_extension = ".docx" -> Str(extract_from_docx(content))
          [] OTHER -> NoneResult

(***************************************************************************)
(* Exceptions.  The outcome of a block of code is a record whose field     *)
(* raised tells whether it ended in an exception; a try/except around the  *)
(* block turns a raised outcome into the value the handler returns.        *)
(***************************************************************************)
\* a block without its handler: the exception goes on to the caller
except_nothing(outcome, handled) == outcome

\* try: <block> except Exception: return <handled>
except_return(outcome, handled) == IF outcome.raised THEN handled ELSE outcome

Raises == [raised |-> TRUE, none |-> TRUE, text |-> <<>>]
Returns(text) == [raised |-> FALSE, none |-> FALSE, text |-> text]
ReturnsNone == [raised |-> FALSE, none |-> TRUE, text |-> <<>>]

\* lines 70-76: open, PdfReader and page.extract_text() may raise
extract_from_pdf_body(content) ==
    IF ~content.readable \/ AnyUnitFails(content) THEN Raises
    ELSE Returns(Concat([k \in DOMAIN content.units |->
                            content.units[k].text \o <<Newline>>]))

\* lines 84-85
extract_from_txt_body(content) ==
    IF ~content.readable THEN Raises ELSE Returns(Concat(UnitTexts(content)))

\* lines 93-94
extract_from_docx_body(content) ==
    IF ~content.readable \/ AnyUnitFails(content) THEN Raises
    ELSE Returns(Join(<<Newline>>, UnitTexts(content)))

\* extract_text_from_file with its handlers and those of the methods it
\* calls: what the call does, an exception that reaches the caller included
extract_text_from_file_call(path, content) ==
    LET file_extension == lower(splitext(path))
    IN  except_return(
            CASE file_extension = ".pdf" ->
                    except_return(extract_from_pdf_body(content), Returns(<<>>))
              [] file_extension = ".txt" ->
                    except_return(extract_from_txt_body(content), Returns(<<>>))
              [] file_extension = ".docx" ->
                    except_return(extract_from_docx_body(content), Returns(<<>>))
              [] OTHER -> ReturnsNone,
            ReturnsNone)

(***************************************************************************)
(* SimpleDocRetrieval.documents is a dict: a sequence of entries in        *)
(* insertion order, one per key.                                           *)
(***************************************************************************)
DictKeys(dict) == {dict[k].name : k \in DOMAIN dict}
DictGet(dict, key) == dict[CHOOSE k \in DOMAIN dict : dict[k].name = key]

\* dict[key] = entry: an existing key keeps its place
DictSet(dict, entry) ==
    IF entry.name \in DictKeys(dict)
    THEN [k \in DOMAIN dict |-> IF dict[k].name = entry.name THEN entry ELSE dict[k]]
    ELSE Append(dict, entry)

\* lines 118-123: add_document goes on to chunk_text
add_document_chunks(path, content) ==
    ~falsy(extract_text_from_file(path, content))

\* an add_document that stores whatever was extracted, empty or not
add_document_unchecked(docs, path, content, size, overlap) ==
    LET document_text == extract_text_from_file(path, content)
    IN  IF chunk_text_raises(document_text.text, size, overlap)
        THEN [ret |-> FALSE, documents |-> docs]
        ELSE [ret |-> TRUE,
              documents |-> DictSet(docs,
                  [name |-> basename(path), path |-> path,
                   chunks |-> chunk_text(document_text.text, size, overlap),
                   full_text |-> document_text.text])]

\* SimpleDocRetrieval.add_document: the value returned and the dict after it
add_document(docs, path, content, size, overlap) ==
    LET document_text == extract_text_from_file(path, content)
    IN  IF falsy(document_text) THEN [ret |-> FALSE, documents |-> docs]
        ELSE IF chunk_text_raises(document_text.text, size, overlap)
        THEN [ret |-> FALSE, documents |-> docs]
        ELSE [ret |-> TRUE,
              documents |-> DictSet(docs,
                  [name |-> basename(path), path |-> path,
                   chunks |-> chunk_text(document_text.text, size, overlap),
                   full_text |-> document_text.text])]

(***************************************************************************)
(* The store as a library object: add_document, chunk_text and clear are   *)
(* called in any order, on files whose content is whatever is on disk at   *)
(* the time of the call.                                                   *)
(***************************************************************************)
MaxStoreSize == 2   \* largest chunk_size of a store

StoreTexts == {SubSeq(Letters, 1, k) : k \in 0..3}

StoreConfigs == {c \in (0..MaxStoreSize) \X (0..MaxStoreSize) : c[1] > c[2]}
AnyConfigs == (0..MaxStoreSize) \X (0..MaxStoreSize)

NChunks(docs, name) ==
    IF name \in DictKeys(docs) THEN Len(DictGet(docs, name).chunks) ELSE 0

InitStore ==
    /\ \E c \in StoreConfigs : chunk_size = c[1] /\ chunk_overlap = c[2]
    /\ documents = <<>>
    /\ last = NoCall
    /\ NoApp

InitAnyConfig ==
    /\ \E c \in AnyConfigs : chunk_size = c[1] /\ chunk_overlap = c[2]
    /\ documents = <<>>
    /\ last = NoCall
    /\ NoApp

AddDocument(name, content) ==
    LET path == Path(name)
        result == add_document(documents, path, content, chunk_size, chunk_overlap)
    IN  /\ documents' = result.documents
        /\ last' = [op |-> "add_document", name |-> name, content |-> content,
                    text |-> extract_text_from_file(path, content),
                    chunked |-> add_document_chunks(path, content),
                    ret |-> result.ret,
                    present |-> name \in DictKeys(documents),
                    unchanged |-> result.documents = documents,
                    chunks_before |-> NChunks(documents, name),
                    count_before |-> Len(documents)]
        /\ UNCHANGED <<chunk_size, chunk_overlap>>
        /\ UNCHANGED appVars

\* SimpleDocRetrieval.clear
Clear ==
    /\ documents' = <<>>
    /\ last' = [op |-> "clear", ret |-> TRUE]
    /\ UNCHANGED <<chunk_size, chunk_overlap>>
    /\ UNCHANGED appVars

NextStore ==
    \/ \E name \in FileNames, content \in FileContents : AddDocument(name, content)
    \/ \E text \in StoreTexts : ChunkText(text)
    \/ Clear

SpecStore == InitStore /\ [][NextStore]_vars

SpecAnyConfig == InitAnyConfig /\ [][NextStore]_vars

(***************************************************************************)
(* SimpleDocRetrieval.query, as far as its result goes: the sentinel       *)
(* without a model call when there are no documents, else the model's      *)
(* answer or the error string of a failed call.                            *)
(***************************************************************************)
NoDocuments == "No documents have been added to the system."
Answer == "answer"
DivAnswer == "<div>answer</div>"
ModelOutcomes == {"ok", "ok_div", "raise"}

\* response.text of generate_content
response_text(outcome) == IF outcome = "ok_div" THEN DivAnswer ELSE Answer

\* generate_content(...).text: the call may raise
model_call(outcome) ==
    IF outcome = "raise" THEN [raised |-> TRUE, text |-> ""]
    ELSE [raised |-> FALSE, text |-> response_text(outcome)]

\* SimpleDocRetrieval.query with its handler: an exception that reaches the
\* caller included
query_call(docs, question, outcome) ==
    IF docs = <<>> THEN [raised |-> FALSE, text |-> NoDocuments]
    ELSE except_return(model_call(outcome),
                       [raised |-> FALSE, text |-> "Error querying documents: e"])

query(docs, question, outcome) == query_call(docs, question, outcome).text

(***************************************************************************)
(* SimpleDocRetrieval.query, the prompt it sends.  A prompt is a sequence  *)
(* of pieces: the fixed strings of the code, the document names, the       *)
(* question, and the characters of the excerpts.                           *)
(***************************************************************************)
\* lines 45-46: the configuration __init__ sets
DefaultChunkSize == 1000
DefaultChunkOverlap == 200
ExcerptLength == 500

ContextHeader == "Here are excerpts from relevant documents:\n\n"
DocumentLabel == "Document: "
BeginningLabel == "Excerpt from beginning:\n"
EndLabel == "Excerpt from end:\n"
Ellipsis == "..."
BlankLine == "\n\n"
PromptHead ==
    "\n            I'll provide you with some context from documents, and then ask a question.\n            Please answer the question based on the context provided.\n            \n            Context:\n            "
PromptQuestion == "\n            \n            Question: "
PromptTail ==
    "\n            \n            Please provide a comprehensive answer. If the information is not found in the context, \n            state that clearly and give a best guess based on your general knowledge.\n            "

\* a block whose end excerpt is cut from the front of the last chunk
query_block_end_from_front(entry) ==
    <<DocumentLabel, entry.name, Newline, BeginningLabel>>
        \o Slice(entry.chunks[1], 0, ExcerptLength) \o <<Ellipsis \o BlankLine>>
        \o (IF Len(entry.chunks) > 1
            THEN <<EndLabel, Ellipsis>>
                     \o Slice(entry.chunks[Len(entry.chunks)], 0, ExcerptLength)
                     \o <<BlankLine>>
            ELSE <<>>)

\* a block that gives an end excerpt whatever the number of chunks
query_block_always_end(entry) ==
    <<DocumentLabel, entry.name, Newline, BeginningLabel>>
        \o Slice(entry.chunks[1], 0, ExcerptLength) \o <<Ellipsis \o BlankLine>>
        \o <<EndLabel, Ellipsis>>
        \o LastChars(entry.chunks[Len(entry.chunks)], ExcerptLength)
        \o <<BlankLine>>

\* lines 152-162: what one document adds to the context
query_block(entry) ==
    IF entry.chunks = <<>> THEN <<>>
    ELSE <<DocumentLabel, entry.name, Newline, BeginningLabel>>
             \o Slice(entry.chunks[1], 0, ExcerptLength) \o <<Ellipsis \o BlankLine>>
             \o (IF Len(entry.chunks) > 1
                 THEN <<EndLabel, Ellipsis>>
                          \o LastChars(entry.chunks[Len(entry.chunks)], ExcerptLength)
                          \o <<BlankLine>>
                 ELSE <<>>)

\* lines 147-162: the context, the documents in the dict's order
query_context(docs) ==
    <<ContextHeader>> \o Concat([k \in DOMAIN docs |-> query_block(docs[k])])

\* a prompt whose context leaves out the documents the question names
query_prompt_selective(docs, question) ==
    <<PromptHead>>
        \o query_context(SelectSeq(docs, LAMBDA entry : entry.name # question))
        \o <<PromptQuestion, question, PromptTail>>

\* lines 165-176: the prompt
query_prompt(docs, question) ==
    <<PromptHead>> \o query_context(docs) \o <<PromptQuestion, question, PromptTail>>

\* a query that calls the model whatever the store holds
query_invokes_always(docs) == TRUE

\* lines 142-143, 179: the model is called unless the dict is empty
query_invokes(docs) == docs # <<>>

(***************************************************************************)
(* The store with its real configuration, queried: documents long enough   *)
(* for the excerpts to be cut.                                             *)
(***************************************************************************)
QueryShort == 3     \* a text of one chunk, shorter than an excerpt
QueryMid == 700     \* a text of one chunk, longer than an excerpt
QueryLong == 1500   \* a text of two chunks, the last longer than an excerpt

\* a text of n characters
LongText(n) == [i \in 1..n |-> Letters[((i - 1) % Len(Letters)) + 1]]

QueryNames == {"a.txt", "B.PDF"}
QueryContents ==
    { File(<<>>),
      File(<<Unit(LongText(QueryShort))>>),
      File(<<Unit(LongText(QueryMid))>>),
      File(<<Unit(LongText(QueryLong))>>) }
Questions == {"q1", "a.txt"}

InitQuery ==
    /\ chunk_size = DefaultChunkSize
    /\ chunk_overlap = DefaultChunkOverlap
    /\ documents = <<>>
    /\ last = NoCall
    /\ NoApp

\* SimpleDocRetrieval.query
Query(question, outcome) ==
    /\ last' = [op |-> "query", question |-> question,
                invoked |-> query_invokes(documents),
                prompt |-> IF query_invokes(documents)
                           THEN query_prompt(documents, question) ELSE <<>>,
                outcome |-> outcome,
                raised |-> query_call(documents, question, outcome).raised,
                ret |-> query(documents, question, outcome),
                previous |-> IF last.op = "query"
                             THEN [op |-> "query", question |-> last.question,
                                   prompt |-> last.prompt]
                             ELSE NoCall]
    /\ UNCHANGED <<chunk_size, chunk_overlap, documents>>
    /\ UNCHANGED appVars

NextQuery ==
    \/ \E name \in QueryNames, content \in QueryContents : AddDocument(name, content)
    \/ \E question \in Questions, outcome \in ModelOutcomes : Query(question, outcome)
    \/ Clear

SpecQuery == InitQuery /\ [][NextQuery]_vars

(***************************************************************************)
(* src/combined_app.py.  Streamlit runs the script from top to bottom on   *)
(* every user event; the widgets' values are the inputs of a run, and a    *)
(* button is TRUE only in the run its click starts.  A run works on the    *)
(* session state S.                                                        *)
(***************************************************************************)

MaxTurns == 2   \* a query is accepted while the transcript is shorter

ApiKeys == {"k1", "k2"}

\* what the document uploader can hold
DocUploads ==
    LET fa == [name |-> "a.txt", content |-> File(<<Unit(<<"a", "b", "c">>)>>)]
        fe == [name |-> "a.txt", content |-> File(<<>>)]
        fb == [name |-> "b.pdf", content |-> File(<<Unit(<<"a">>)>>)]
    IN  { <<>>, <<fa>>, <<fe>>, <<fa, fb>> }

\* what the media uploader can hold
MediaUploads ==
    LET img == [name |-> "p.png", type |-> "image/png"]
        aud == [name |-> "s.mp3", type |-> "audio/mpeg"]
        vid == [name |-> "v.mp4", type |-> "video/mp4"]
        unk == [name |-> "v.mp4", type |-> ""]
    IN  { <<>>, <<img>>, <<aud, vid>>, <<unk>> }

Urls == {"u1"}

DocQuery == "what does the document say"
PlainQuery == "hello"
Queries == {DocQuery, PlainQuery}

\* the file attached to a query: none, an image, an image PIL cannot open, a PDF
ChatFiles == {None, "image", "bad_image", "pdf"}

\* uploaded_file.type.split('/')[0]
mime_category(type) ==
    CASE type = "image/png" -> "image"
      [] type = "audio/mpeg" -> "audio"
      [] type = "video/mp4" -> "video"
      [] OTHER -> type

\* any(keyword in user_query.lower() for keyword in doc_related_keywords)
is_doc_related(user_query) == user_query = DocQuery

\* response.replace("</div>", "").replace("<div>", "")
strip_div(response) == IF response = DivAnswer THEN Answer ELSE response

EmptyProcessed ==
    [documents |-> <<>>, images |-> <<>>, audio |-> <<>>, video |-> <<>>,
     web_content |-> <<>>]

NamesOf(list) == {list[k].name : k \in DOMAIN list}
UrlsOf(list) == {list[k].url : k \in DOMAIN list}

\* lines 115-119: a new key replaces the handler and the retrieval object
set_api_key(S, api_key) ==
    IF api_key # "" /\ (S.gemini_handler = None \/ S.gemini_handler # api_key)
    THEN [S EXCEPT !.gemini_handler = api_key,
                   !.doc_retrieval = api_key,
                   !.documents = <<>>]
    ELSE S

RECURSIVE upload_docs_abort(_, _)
\* an upload loop that gives up at the first file that fails
upload_docs_abort(S, uploaded_docs) ==
    IF uploaded_docs = <<>> THEN S
    ELSE LET uploaded_file == Head(uploaded_docs)
             temp_file_path == Path(uploaded_file.name)
             result == add_document(S.documents, temp_file_path, uploaded_file.content,
                                    chunk_size, chunk_overlap)
         IN  IF uploaded_file.name \in NamesOf(S.processed_files.documents)
                \/ S.doc_retrieval = None
             THEN upload_docs_abort(S, Tail(uploaded_docs))
             ELSE IF ~result.ret THEN S
             ELSE upload_docs_abort(
                      [S EXCEPT !.documents = result.documents,
                                !.processed_files.documents =
                                    Append(@, [name |-> uploaded_file.name,
                                               path |-> temp_file_path])],
                      Tail(uploaded_docs))

RECURSIVE upload_docs(_, _)
\* lines 132-154: the document upload loop
upload_docs(S, uploaded_docs) ==
    IF uploaded_docs = <<>> THEN S
    ELSE LET uploaded_file == Head(uploaded_docs)
             temp_file_path == Path(uploaded_file.name)
             result == add_document(S.documents, temp_file_path, uploaded_file.content,
                                    chunk_size, chunk_overlap)
             S1 == IF uploaded_file.name \in NamesOf(S.processed_files.documents)
                      \/ S.doc_retrieval = None
                      \/ ~result.ret
                   THEN S
                   ELSE [S EXCEPT !.documents = result.documents,
                                  !.processed_files.documents =
                                      Append(@, [name |-> uploaded_file.name,
                                                 path |-> temp_file_path])]
         IN  upload_docs(S1, Tail(uploaded_docs))

RECURSIVE upload_media(_, _)
\* lines 167-210: the media upload loop
upload_media(S, uploaded_media) ==
    IF uploaded_media = <<>> THEN S
    ELSE LET uploaded_file == Head(uploaded_media)
             file_type == mime_category(uploaded_file.type)
             entry == [name |-> uploaded_file.name, path |-> Path(uploaded_file.name)]
             S1 == CASE file_type = "image"
                           /\ uploaded_file.name \notin NamesOf(S.processed_files.images) ->
                        [S EXCEPT !.processed_files.images = Append(@, entry)]
                     [] file_type = "audio"
                           /\ uploaded_file.name \notin NamesOf(S.processed_files.audio) ->
                        [S EXCEPT !.processed_files.audio = Append(@, entry)]
                     [] file_type = "video"
                           /\ uploaded_file.name \notin NamesOf(S.processed_files.video) ->
                        [S EXCEPT !.processed_files.video = Append(@, entry)]
                     [] OTHER -> S
         IN  upload_media(S1, Tail(uploaded_media))

\* lines 218-227: Add URL to Knowledge Base
add_url(S, web_url, clicked) ==
    IF web_url # "" /\ clicked /\ web_url \notin UrlsOf(S.processed_files.web_content)
    THEN [S EXCEPT !.processed_files.web_content = Append(@, [url |-> web_url])]
    ELSE S

\* lines 231-237: Knowledge Base Stats
write_stats(S) ==
    [S EXCEPT !.shown = [documents |-> Len(S.processed_files.documents),
                         images |-> Len(S.processed_files.images),
                         audio |-> Len(S.processed_files.audio),
                         video |-> Len(S.processed_files.video),
                         web_content |-> Len(S.processed_files.web_content)]]

\* a clear that empties the transcript too
clear_kb_and_chat(S, clicked) ==
    IF clicked
    THEN [S EXCEPT !.documents = IF S.doc_retrieval # None THEN <<>> ELSE @,
                   !.processed_files = EmptyProcessed,
                   !.chat_history = <<>>]
    ELSE S

\* lines 239-249: Clear Knowledge Base
clear_kb(S, clicked) ==
    IF clicked
    THEN [S EXCEPT !.documents = IF S.doc_retrieval # None THEN <<>> ELSE @,
                   !.processed_files = EmptyProcessed]
    ELSE S

\* line 281-283: the query is taken up
send_accepted(S, user_query, clicked) ==
    user_query # "" /\ clicked /\ S.gemini_handler # None

\* lines 301-304: Image.open raises on a file that is no image
send_aborts(S, user_query, chat_file) ==
    ~(is_doc_related(user_query) /\ S.doc_retrieval # None) /\ chat_file = "bad_image"

\* GeminiHandler.generate_response (lines 98-106)
generate_response(prompt, image_data, outcome) ==
    IF outcome = "raise" THEN "Error generating response: e" ELSE response_text(outcome)

\* lines 281-319: Send
send(S, user_query, clicked, chat_file, outcome) ==
    IF ~send_accepted(S, user_query, clicked) THEN S
    ELSE LET user == [role |-> "user", content |-> user_query]
             response ==
                 IF is_doc_related(user_query) /\ S.doc_retrieval # None
                 THEN query(S.documents, user_query, outcome)
                 ELSE generate_response(user_query, chat_file, outcome)
             assistant == [role |-> "assistant", content |-> strip_div(response)]
         IN  IF send_aborts(S, user_query, chat_file)
             THEN [S EXCEPT !.chat_history = Append(@, user)]
             ELSE [S EXCEPT !.chat_history = Append(Append(@, user), assistant)]

\* one run of the script
script(S, in, button) ==
    LET S1 == set_api_key(S, in.api_key)
        S2 == upload_docs(S1, in.uploaded_docs)
        S3 == upload_media(S2, in.uploaded_media)
        S4 == add_url(S3, in.web_url, button = "add_url")
        S5 == write_stats(S4)
        S6 == clear_kb(S5, button = "clear")
    IN  send(S6, in.user_query, button = "send", in.chat_file, in.outcome)

\* line 319: st.rerun() after an answered query runs the script once more,
\* the widgets as they are and no button clicked
run(S, in, button) ==
    LET S1 == script(S, in, button)
    IN  IF send_accepted(set_api_key(S, in.api_key), in.user_query, button = "send")
           /\ ~send_aborts(S1, in.user_query, in.chat_file)
        THEN script(S1, in, "none")
        ELSE S1

Session ==
    [gemini_handler |-> gemini_handler, doc_retrieval |-> doc_retrieval,
     documents |-> documents, processed_files |-> processed_files,
     chat_history |-> chat_history, shown |-> shown]

\* the widgets that keep their value from run to run
Widgets ==
    [api_key : ApiKeys \cup {""}, uploaded_docs : DocUploads,
     uploaded_media : MediaUploads]

NoText == [web_url |-> "", user_query |-> "", chat_file |-> None, outcome |-> "ok"]

Becomes(S, button) ==
    /\ gemini_handler' = S.gemini_handler
    /\ doc_retrieval' = S.doc_retrieval
    /\ documents' = S.documents
    /\ processed_files' = S.processed_files
    /\ chat_history' = S.chat_history
    /\ shown' = S.shown
    /\ last' = [op |-> "run", button |-> button]
    /\ UNCHANGED <<chunk_size, chunk_overlap>>
    /\ UNCHANGED crewVars

InitCombined ==
    /\ chunk_size = DefaultChunkSize
    /\ chunk_overlap = DefaultChunkOverlap
    /\ documents = <<>>
    /\ last = NoCall
    /\ gemini_handler = None
    /\ doc_retrieval = None
    /\ processed_files = EmptyProcessed
    /\ chat_history = <<>>
    /\ shown = [documents |-> 0, images |-> 0, audio |-> 0, video |-> 0,
                web_content |-> 0]
    /\ NoCrewApp

(***************************************************************************)
(* The document uploader of combined_app.py alone: batches of files, some  *)
(* of which fail to extract, are put into the uploader.                    *)
(***************************************************************************)
BatchUploads ==
    LET fa == [name |-> "a.txt", content |-> File(<<Unit(<<"a", "b", "c">>)>>)]
        fb == [name |-> "b.pdf", content |-> File(<<Unit(<<"a">>)>>)]
        fe == [name |-> "b.txt", content |-> File(<<>>)]
        fx == [name |-> "c.docx", content |-> Unreadable]
        fy == [name |-> "b.pdf", content |-> File(<<Unit(<<"a">>), BadUnit>>)]
    IN  { <<>>, <<fx, fa>>, <<fa, fx, fb>>, <<fe, fb>>, <<fy, fa>> }

UploadWidgets ==
    [api_key : ApiKeys \cup {""}, uploaded_docs : BatchUploads, uploaded_media : {<<>>}]

RECURSIVE upload_messages(_, _)
\* lines 132-154: the message the loop shows for each file of the uploader
upload_messages(S, uploaded_docs) ==
    IF uploaded_docs = <<>> THEN <<>>
    ELSE LET uploaded_file == Head(uploaded_docs)
             result == add_document(S.documents, Path(uploaded_file.name),
                                    uploaded_file.content, chunk_size, chunk_overlap)
             message ==
                 IF uploaded_file.name \in NamesOf(S.processed_files.documents)
                 THEN "none"
                 ELSE IF S.doc_retrieval = None THEN "Please set Gemini API Key first"
                 ELSE IF result.ret THEN "Document processed"
                 ELSE "Failed to process document"
         IN  <<message>> \o upload_messages(upload_docs(S, <<uploaded_file>>),
                                            Tail(uploaded_docs))

BecomesEvent(S, event) ==
    /\ gemini_handler' = S.gemini_handler
    /\ doc_retrieval' = S.doc_retrieval
    /\ documents' = S.documents
    /\ processed_files' = S.processed_files
    /\ chat_history' = S.chat_history
    /\ shown' = S.shown
    /\ last' = event
    /\ UNCHANGED <<chunk_size, chunk_overlap>>
    /\ UNCHANGED crewVars

\* the uploader changes: the script runs with no button clicked
Upload(w) ==
    BecomesEvent(run(Session, w @@ NoText, "none"),
                 [op |-> "upload", button |-> "none", batch |-> w.uploaded_docs,
                  before |-> NamesOf(processed_files.documents),
                  messages |-> upload_messages(set_api_key(Session, w.api_key),
                                               w.uploaded_docs)])

UploadClear(w) ==
    BecomesEvent(run(Session, w @@ NoText, "clear"),
                 [op |-> "run", button |-> "clear"])

NextUpload == \E w \in UploadWidgets : Upload(w) \/ UploadClear(w)

SpecUpload == InitCombined /\ [][NextUpload]_vars

\* a widget changes: the script runs with no button clicked
Rerun(w) == Becomes(run(Session, w @@ NoText, "none"), "none")

ClickAddUrl(w, web_url) ==
    Becomes(run(Session, w @@ [NoText EXCEPT !.web_url = web_url], "add_url"), "add_url")

ClickClear(w) == Becomes(run(Session, w @@ NoText, "clear"), "clear")

ClickSend(w, user_query, chat_file, outcome) ==
    /\ Len(chat_history) < MaxTurns
    /\ Becomes(run(Session,
                   w @@ [web_url |-> "", user_query |-> user_query,
                         chat_file |-> chat_file, outcome |-> outcome],
                   "send"), "send")

NextCombined ==
    \E w \in Widgets :
        \/ Rerun(w)
        \/ \E web_url \in Urls : ClickAddUrl(w, web_url)
        \/ ClickClear(w)
        \/ \E user_query \in Queries, chat_file \in ChatFiles, outcome \in ModelOutcomes :
               ClickSend(w, user_query, chat_file, outcome)

SpecCombined == InitCombined /\ [][NextCombined]_vars

(***************************************************************************)
(* src/utils/file_processor.py.  The result of process_file is a dict; its *)
(* keys success, error, content_type and content are the record's fields,  *)
(* an absent key being the empty string or the empty text.                 *)
(***************************************************************************)
ProcessRaises ==
    [raised |-> TRUE, success |-> FALSE, error |-> "", content_type |-> "",
     content |-> <<>>]
ProcessFailure(error) ==
    [raised |-> FALSE, success |-> FALSE, error |-> error, content_type |-> "",
     content |-> <<>>]
ProcessSuccess(type, content) ==
    [raised |-> FALSE, success |-> TRUE, error |-> "", content_type |-> type,
     content |-> content]

\* f"--- Page {i+1} ---\n"
PageLabel(k) ==
    CASE k = 1 -> "--- Page 1 ---\n"
      [] k = 2 -> "--- Page 2 ---\n"
      [] OTHER -> "--- Page 3 ---\n"

\* f"--- Slide {i+1} ---\n"
SlideLabel(k) ==
    CASE k = 1 -> "--- Slide 1 ---\n"
      [] k = 2 -> "--- Slide 2 ---\n"
      [] OTHER -> "--- Slide 3 ---\n"

\* the units that gave text, each under its label
Labelled(content, labels) ==
    LET kept == SelectSeq([k \in DOMAIN content.units |-> k],
                          LAMBDA k : content.units[k].text # <<>>)
    IN  [j \in DOMAIN kept |-> <<labels[kept[j]]>> \o content.units[kept[j]].text]

\* _process_pdf, lines 103-136
process_pdf_body(content) ==
    IF ~content.readable \/ AnyUnitFails(content) THEN ProcessRaises
    ELSE ProcessSuccess("text", Join(<<BlankLine>>, Labelled(content, [k \in DOMAIN content.units |-> PageLabel(k)])))

\* a character that UTF-8 could not decode, read as latin-1
Latin1 == "~"

\* _process_text, lines 146-181: the file read as UTF-8, and as latin-1 when
\* that fails to decode
process_text_body(content) ==
    IF ~content.readable THEN ProcessRaises
    ELSE ProcessSuccess("text",
             Concat([k \in DOMAIN content.units |->
                        IF content.units[k].ok THEN content.units[k].text
                        ELSE <<Latin1>>]))

\* _process_image, _process_audio, _process_video: the file opened and its
\* metadata read
process_media_body(type, path, content) ==
    IF ~content.readable \/ AnyUnitFails(content) THEN ProcessRaises
    ELSE ProcessSuccess(type,
             <<CASE type = "image" -> "Image file: "
                 [] type = "audio" -> "Audio file: "
                 [] OTHER -> "Video file: ",
               basename(path)>>)

\* _process_docx, lines 295-310
process_docx_body(content) ==
    IF ~content.readable \/ AnyUnitFails(content) THEN ProcessRaises
    ELSE ProcessSuccess("text", Join(<<BlankLine>>, UnitTexts(content)))

\* _process_pptx, lines 318-343
process_pptx_body(content) ==
    IF ~content.readable \/ AnyUnitFails(content) THEN ProcessRaises
    ELSE ProcessSuccess("text", Join(<<BlankLine>>, Labelled(content, [k \in DOMAIN content.units |-> SlideLabel(k)])))

\* lines 47-58
supported_extensions ==
    {".pdf", ".txt", ".png", ".jpg", ".jpeg", ".mp3", ".wav", ".mp4", ".docx",
     ".pptx"}

\* lines 70-91: the body of process_file
process_file_body(path, content) ==
    LET ext == lower(splitext(path))
    IN  IF ext \notin supported_extensions
        THEN ProcessFailure("Unsupported file type")
        ELSE CASE ext = ".pdf" ->
                    except_return(process_pdf_body(content),
                                  ProcessFailure("Error processing PDF: e"))
               [] ext = ".txt" ->
                    except_return(process_text_body(content),
                                  ProcessFailure("Error processing text file: e"))
               [] ext \in {".png", ".jpg", ".jpeg"} ->
                    except_return(process_media_body("image", path, content),
                                  ProcessFailure("Error processing image: e"))
               [] ext \in {".mp3", ".wav"} ->
                    except_return(process_media_body("audio", path, content),
                                  ProcessFailure("Error processing audio: e"))
               [] ext = ".mp4" ->
                    except_return(process_media_body("video", path, content),
                                  ProcessFailure("Error processing video: e"))
               [] ext = ".docx" ->
                    except_return(process_docx_body(content),
                                  ProcessFailure("Error processing DOCX: e"))
               [] OTHER ->
                    except_return(process_pptx_body(content),
                                  ProcessFailure("Error processing PPTX: e"))

\* FileProcessor.process_file
process_file(path, content) ==
    except_return(process_file_body(path, content), ProcessFailure("e"))

(***************************************************************************)
(* The extractors alone: each is called on a file, whatever is on disk.    *)
(***************************************************************************)
ExtractNames ==
    {"a.txt", "B.PDF", "b.pdf", "c.docx", "d.exe", "e.pptx", "p.png", "s.mp3",
     "v.mp4"}

ExtractContents ==
    FileContents \cup
        { File(<<BadUnit>>),
          File(<<BadUnit, Unit(<<"a">>)>>),
          File(<<Unit(<<>>), Unit(<<>>)>>),
          File(<<Unit(<<>>), Unit(<<"a">>)>>),
          File(<<Unit(<<"a">>), BadUnit, Unit(<<"b">>)>>) }

InitExtract ==
    /\ chunk_size = DefaultChunkSize
    /\ chunk_overlap = DefaultChunkOverlap
    /\ documents = <<>>
    /\ last = NoCall
    /\ NoApp

\* process_file and extract_text_from_file called on the same file
Extract(name, content) ==
    /\ last' = [op |-> "extract", name |-> name, content |-> content,
                result |-> process_file(Path(name), content),
                text |-> extract_text_from_file_call(Path(name), content)]
    /\ UNCHANGED <<chunk_size, chunk_overlap, documents>>
    /\ UNCHANGED appVars

NextExtract == \E name \in ExtractNames, content \in ExtractContents : Extract(name, content)

SpecExtract == InitExtract /\ [][NextExtract]_vars

(***************************************************************************)
(* src/utils/file_processor.py and src/utils/rag_tools.py, as far as       *)
(* src/app.py uses them.  A source is a file path or a URL that a tool     *)
(* holds.                                                                  *)
(***************************************************************************)
FileSource(path) == [kind |-> "file", id |-> path.name]
UrlSource(url) == [kind |-> "url", id |-> url]

\* ext.lstrip('.').lower()
extension(path) ==
    LET ext == lower(splitext(path))
    IN  CASE ext = ".pdf" -> "pdf"
          [] ext = ".txt" -> "txt"
          [] ext = ".docx" -> "docx"
          [] ext = ".png" -> "png"
          [] ext = ".mp3" -> "mp3"
          [] ext = ".mp4" -> "mp4"
          [] ext = ".exe" -> "exe"
          [] ext = ".pptx" -> "pptx"
          [] OTHER -> ext

\* FileProcessor.process_file: result.get("content_type", "unknown")
content_type(path, content) ==
    LET ext == extension(path)
    IN  IF ext \notin {"pdf", "txt", "png", "jpg", "jpeg", "mp3", "wav", "mp4",
                       "docx", "pptx"}
        THEN "unknown"
        ELSE IF ~content.readable \/ (ext # "txt" /\ AnyUnitFails(content))
        THEN "unknown"
        ELSE CASE ext \in {"pdf", "txt", "docx", "pptx"} -> "text"
               [] ext \in {"png", "jpg", "jpeg"} -> "image"
               [] ext \in {"mp3", "wav"} -> "audio"
               [] OTHER -> "video"

\* RagToolManager.add_to_knowledge_base: the manager after the call; a tool
\* that raises leaves it as it was (the call returns False)
add_to_knowledge_base(M, path, tool_ok) ==
    LET ext == extension(path)
        entry == [type |-> ext, path |-> path, filename |-> basename(path)]
        media == [path |-> path, filename |-> basename(path)]
    IN  CASE ext = "pdf" ->
                IF ~tool_ok THEN M
                ELSE [M EXCEPT !.rag_tool = @ \cup {FileSource(path)},
                               !.pdf_tool = path.name,
                               !.knowledge_base.documents = Append(@, entry)]
          [] ext \in {"png", "jpg", "jpeg"} ->
                [M EXCEPT !.knowledge_base.images = Append(@, media)]
          [] ext \in {"mp3", "wav"} ->
                [M EXCEPT !.knowledge_base.audio = Append(@, media)]
          [] ext = "mp4" ->
                [M EXCEPT !.knowledge_base.video = Append(@, media)]
          [] OTHER ->
                IF ~tool_ok THEN M
                ELSE [M EXCEPT !.rag_tool = @ \cup {FileSource(path)},
                               !.knowledge_base.documents = Append(@, entry)]

\* 'youtube.com' in url or 'youtu.be' in url
is_youtube(url) == url = "youtu.be/v"

\* RagToolManager.add_web_content
add_web_content(M, url, tool_ok) ==
    IF ~tool_ok THEN M
    ELSE IF is_youtube(url)
    THEN [M EXCEPT !.youtube_tool = url,
                   !.knowledge_base.youtube_videos = Append(@, [url |-> url])]
    ELSE [M EXCEPT !.rag_tool = @ \cup {UrlSource(url)},
                   !.website_tool = url,
                   !.knowledge_base.web_pages = Append(@, [url |-> url])]

\* the sources RagToolManager.query hands the question to
manager_consults(M) ==
    IF ~M.exists THEN {}
    ELSE (IF M.knowledge_base.documents # <<>> \/ M.knowledge_base.web_pages # <<>>
          THEN M.rag_tool ELSE {})
         \cup {FileSource(M.knowledge_base.documents[k].path) :
                  k \in {j \in DOMAIN M.knowledge_base.documents :
                            M.knowledge_base.documents[j].type = "pdf"}}
         \cup (IF M.knowledge_base.youtube_videos # <<>>
               THEN {UrlSource(M.youtube_tool)} ELSE {})
         \cup (IF M.knowledge_base.web_pages # <<>>
               THEN {UrlSource(M.website_tool)} ELSE {})

RECURSIVE crew_add_files(_, _)
\* MultimodalCrewAgents.process_multimodal_query, lines 240-255: the files
\* the crew's rag_tool holds after the call
crew_add_files(rag_tool, files) ==
    IF files = <<>> THEN rag_tool
    ELSE LET ext == extension(Head(files))
         IN  crew_add_files(
                 IF ext \in {"png", "jpg", "jpeg", "mp4", "mp3", "wav"}
                 THEN rag_tool
                 ELSE rag_tool \cup {FileSource(Head(files))},
                 Tail(files))

(***************************************************************************)
(* RagToolManager.query and GeminiHandler.generate_text_response.  A tool  *)
(* answers a query with a text, which may be empty or blank, or raises.    *)
(***************************************************************************)
\* the URLs added: a web page and a YouTube video
AppUrls == {"u1", "youtu.be/v"}

ToolOutcomes == {"hit", "empty", "blank", "raise"}

\* lines 220-222: the result is kept if `result and result.strip()`
tool_result(header, outcome) ==
    IF outcome = "hit" THEN << <<header, "r">> >> ELSE <<>>

\* line 231: pdf_docs[:3]
PdfLimit == 3

NoRelevant == "No relevant information found in the knowledge base."

\* RagToolManager.query: the results of the tools that hold content, in the
\* order general, PDF, YouTube, website; t gives the outcome of the file
\* tools and of the web tools
manager_query(M, query_text, t) ==
    LET kb == M.knowledge_base
        pdf_docs == SelectSeq(kb.documents, LAMBDA doc : doc.type = "pdf")
        general == IF kb.documents # <<>> \/ kb.web_pages # <<>>
                   THEN tool_result("### General Knowledge Base Results\n", t.files)
                   ELSE <<>>
        pdfs == Concat([k \in 1..Min(PdfLimit, Len(pdf_docs)) |->
                           tool_result("### PDF Results\n", t.files)])
        youtube == IF kb.youtube_videos # <<>>
                   THEN tool_result("### YouTube Video Results\n", t.web) ELSE <<>>
        website == IF kb.web_pages # <<>>
                   THEN tool_result("### Website Results\n", t.web) ELSE <<>>
        results == general \o pdfs \o youtube \o website
    IN  IF results # <<>> THEN Join(<<BlankLine>>, results) ELSE <<NoRelevant>>

TemplateHead == "\n                Here is some relevant context information: \n                "
TemplateMid ==
    "\n                \n                Based on this context and your knowledge, please answer the following question:\n                "
TemplateTail == "\n                "

\* a handler that wraps the prompt in the template whatever the context
complete_prompt_always_wrapped(context, prompt) ==
    <<TemplateHead>> \o context \o <<TemplateMid, prompt, TemplateTail>>

\* lines 47-56 of gemini_handler.py: the prompt sent to the model
complete_prompt(context, prompt) ==
    IF context # <<>>
    THEN <<TemplateHead>> \o context \o <<TemplateMid, prompt, TemplateTail>>
    ELSE <<prompt>>

\* lines 43-45: the context; rag_manager is None when M does not exist
text_context(M, prompt, t) ==
    IF M.exists THEN manager_query(M, prompt, t) ELSE <<>>

\* GeminiHandler.generate_text_response: what is sent and what is returned
generate_text_response(prompt, M, t, outcome) ==
    LET call == except_return(model_call(outcome),
                    [raised |-> FALSE, text |-> "Error generating response: e"])
    IN  [context |-> text_context(M, prompt, t),
         sent |-> complete_prompt(text_context(M, prompt, t), prompt),
         raised |-> call.raised,
         ret |-> call.text]

(***************************************************************************)
(* GeminiHandler.generate_multimodal_response.  A MIME type is a string;   *)
(* a request is what generate_content is called with.                      *)
(***************************************************************************)
NoType == ""

\* mimetypes.guess_type(media_path)[0] where the table knows the extension
guess_type(path) ==
    LET ext == lower(splitext(path))
    IN  CASE ext = ".png" -> "image/png"
          [] ext = ".mp3" -> "audio/mpeg"
          [] ext = ".mp4" -> "video/mp4"
          [] ext = ".pdf" -> "application/pdf"
          [] ext = ".txt" -> "text/plain"
          [] OTHER -> NoType

\* lines 82-90: the fallback on the extension
fallback_type(path) ==
    LET ext == lower(splitext(path))
    IN  CASE ext = ".png" -> "image/png"
          [] ext = ".mp3" -> "audio/mp3"
          [] ext = ".mp4" -> "video/mp4"
          [] OTHER -> "application/octet-stream"

\* lines 79-90; known tells whether the platform's table has the extension
media_content_type(path, known) ==
    IF known /\ guess_type(path) # NoType THEN guess_type(path)
    ELSE fallback_type(path)

\* the part of a MIME type before the slash
major_type(type) ==
    CASE type \in {"image/png"} -> "image"
      [] type \in {"audio/mpeg", "audio/mp3"} -> "audio"
      [] type \in {"video/mp4"} -> "video"
      [] type \in {"text/plain"} -> "text"
      [] OTHER -> "application"

\* a handler that sends whatever the type is
multimodal_supported_any(type) == TRUE

\* lines 115, 123: content_type.startswith('image/'), ('audio/', 'video/')
multimodal_supported(type) == major_type(type) \in {"image", "audio", "video"}

DefaultRagQuery == "Analyze this media"
DefaultMediaPrompt == "Analyze and describe what you see in this media."
MediaTemplateMid ==
    "\n                \n                Based on this context and the provided media, please answer the following:\n                "
UnsupportedMedia == "Unsupported media type."

\* lines 97-101: the context
media_context(M, text_prompt, t) ==
    IF M.exists
    THEN manager_query(M, IF text_prompt # "" THEN text_prompt ELSE DefaultRagQuery, t)
    ELSE <<>>

\* lines 104-112: the prompt text
media_prompt_text(context, text_prompt) ==
    LET asked == IF text_prompt # "" THEN text_prompt ELSE DefaultMediaPrompt
    IN  IF context # <<>>
        THEN <<TemplateHead>> \o context \o <<MediaTemplateMid, asked, TemplateTail>>
        ELSE <<asked>>

NoRequests == <<>>

\* lines 77-137: the body of generate_multimodal_response
generate_multimodal_body(text_prompt, path, content, known, M, t, outcome) ==
    LET mime == media_content_type(path, known)
        request == [prompt_text |-> media_prompt_text(
                                        media_context(M, text_prompt, t), text_prompt),
                    mime_type |-> mime,
                    data |-> content]
    IN  IF ~content.readable
        THEN [raised |-> TRUE, requests |-> NoRequests, ret |-> ""]
        ELSE IF ~multimodal_supported(mime)
        THEN [raised |-> FALSE, requests |-> NoRequests, ret |-> UnsupportedMedia]
        ELSE IF outcome = "raise"
        THEN [raised |-> TRUE, requests |-> <<request>>, ret |-> ""]
        ELSE [raised |-> FALSE, requests |-> <<request>>,
              ret |-> response_text(outcome)]

\* GeminiHandler.generate_multimodal_response
generate_multimodal_response(text_prompt, path, content, known, M, t, outcome) ==
    LET body == generate_multimodal_body(text_prompt, path, content, known, M, t,
                                         outcome)
    IN  except_return(body,
            [raised |-> FALSE, requests |-> body.requests,
             ret |-> "Error processing multimodal query: e"])

(***************************************************************************)
(* RagToolManager as a library object, and a GeminiHandler that is given   *)
(* it or given no manager.                                                 *)
(***************************************************************************)
MaxRegistry == 2   \* content is added while the registries hold fewer entries

ManagerFiles == {"b.pdf", "a.txt", "e.pptx", "d.exe", "p.png", "s.mp3", "v.mp4"}

Registered(M) ==
    Len(M.knowledge_base.documents) + Len(M.knowledge_base.web_pages)
        + Len(M.knowledge_base.youtube_videos) + Len(M.knowledge_base.images)
        + Len(M.knowledge_base.audio) + Len(M.knowledge_base.video)

\* lines 72-94 of rag_tools.py: the value add_to_knowledge_base returns
add_to_knowledge_base_ret(path, tool_ok) ==
    tool_ok \/ extension(path) \in {"png", "jpg", "jpeg", "mp3", "wav", "mp4"}

\* lines 107-118: the value add_web_content returns
add_web_content_ret(url, tool_ok) == tool_ok

InitManager ==
    /\ chunk_size = DefaultChunkSize
    /\ chunk_overlap = DefaultChunkOverlap
    /\ documents = <<>>
    /\ last = NoCall
    /\ gemini_handler = None
    /\ doc_retrieval = None
    /\ processed_files = <<>>
    /\ chat_history = <<>>
    /\ shown = <<>>
    /\ crew_agents = NoCrew
    /\ use_crew = FALSE
    /\ rag_manager = NewManager
    /\ stale = {}

ManagerUnchanged ==
    UNCHANGED <<chunk_size, chunk_overlap, documents, gemini_handler, doc_retrieval,
                processed_files, chat_history, shown, crew_agents, use_crew, stale>>

AddToKnowledgeBase(name, tool_ok) ==
    /\ Registered(rag_manager) < MaxRegistry
    /\ rag_manager' = add_to_knowledge_base(rag_manager, Path(name), tool_ok)
    /\ last' = [op |-> "add_to_knowledge_base", name |-> name,
                ret |-> add_to_knowledge_base_ret(Path(name), tool_ok),
                before |-> rag_manager.knowledge_base]
    /\ ManagerUnchanged

AddWebContent(url, tool_ok) ==
    /\ Registered(rag_manager) < MaxRegistry
    /\ rag_manager' = add_web_content(rag_manager, url, tool_ok)
    /\ last' = [op |-> "add_web_content", name |-> url,
                ret |-> add_web_content_ret(url, tool_ok),
                before |-> rag_manager.knowledge_base]
    /\ ManagerUnchanged

GenerateTextResponse(prompt, given, t, outcome) ==
    LET M == IF given THEN rag_manager ELSE NoManager
        response == generate_text_response(prompt, M, t, outcome)
    IN  /\ last' = [op |-> "generate_text_response", prompt |-> prompt,
                    given |-> given, context |-> response.context,
                    sent |-> response.sent, outcome |-> outcome,
                    raised |-> response.raised, ret |-> response.ret]
        /\ UNCHANGED rag_manager
        /\ ManagerUnchanged

MediaFiles == {"p.png", "s.mp3", "v.mp4", "b.pdf", "n.xyz"}
MediaContents == {File(<<Unit(<<"a">>)>>), Unreadable}

GenerateMultimodalResponse(text_prompt, name, content, known, given, t, outcome) ==
    LET M == IF given THEN rag_manager ELSE NoManager
        response == generate_multimodal_response(text_prompt, Path(name), content,
                                                 known, M, t, outcome)
    IN  /\ last' = [op |-> "generate_multimodal_response", prompt |-> text_prompt,
                    name |-> name, content |-> content, given |-> given,
                    outcome |-> outcome, raised |-> response.raised, requests |-> response.requests,
                    ret |-> response.ret]
        /\ UNCHANGED rag_manager
        /\ ManagerUnchanged

NextManager ==
    \/ \E name \in ManagerFiles, tool_ok \in BOOLEAN : AddToKnowledgeBase(name, tool_ok)
    \/ \E url \in AppUrls, tool_ok \in BOOLEAN : AddWebContent(url, tool_ok)
    \/ \E prompt \in {"q1", "q2"}, given \in BOOLEAN,
          t \in [files : ToolOutcomes, web : ToolOutcomes],
          outcome \in ModelOutcomes :
           GenerateTextResponse(prompt, given, t, outcome)

SpecManager == InitManager /\ [][NextManager]_vars

(***************************************************************************)
(* The handler alone: it is called with a manager that holds nothing, a    *)
(* PDF, or a PDF and a video page, or with no manager.                     *)
(***************************************************************************)
HandlerManagers ==
    LET pdf == add_to_knowledge_base(NewManager, Path("b.pdf"), TRUE)
    IN  {NewManager, pdf, add_web_content(pdf, "youtu.be/v", TRUE)}

\* the stores query is called on: an empty one, and one that holds a.txt
HandlerStores ==
    {<<>>,
     add_document(<<>>, Path("a.txt"), File(<<Unit(<<"a">>)>>),
                  DefaultChunkSize, DefaultChunkOverlap).documents}

InitHandler ==
    /\ chunk_size = DefaultChunkSize
    /\ chunk_overlap = DefaultChunkOverlap
    /\ documents \in HandlerStores
    /\ last = NoCall
    /\ gemini_handler = None
    /\ doc_retrieval = None
    /\ processed_files = <<>>
    /\ chat_history = <<>>
    /\ shown = <<>>
    /\ crew_agents = NoCrew
    /\ use_crew = FALSE
    /\ rag_manager \in HandlerManagers
    /\ stale = {}

NextHandler ==
    \/ \E text_prompt \in {"", "q1"}, name \in MediaFiles, content \in MediaContents,
          known \in BOOLEAN, given \in BOOLEAN, o \in ToolOutcomes,
          outcome \in ModelOutcomes :
           GenerateMultimodalResponse(text_prompt, name, content, known, given,
                                      [files |-> o, web |-> o], outcome)
    \/ \E prompt \in {"q1", "q2"}, given \in BOOLEAN,
          t \in [files : ToolOutcomes, web : ToolOutcomes],
          outcome \in ModelOutcomes :
           GenerateTextResponse(prompt, given, t, outcome)
    \/ \E question \in Questions, outcome \in ModelOutcomes : Query(question, outcome)

SpecHandler == InitHandler /\ [][NextHandler]_vars

(***************************************************************************)
(* src/app.py: one run of the script on the session state A.               *)
(***************************************************************************)
MaxAppTurns == 3   \* a query is accepted while the transcript is shorter
MaxWeb == 1        \* a URL is added while the knowledge base holds fewer

AppUploads ==
    LET fa == [name |-> "a.txt", content |-> File(<<Unit(<<"a">>)>>)]
        fb == [name |-> "b.pdf", content |-> File(<<Unit(<<"a">>)>>)]
        fp == [name |-> "p.png", content |-> File(<<>>)]
    IN  { <<>>, <<fa, fb, fp>> }


\* the queries asked: a question, or a media file alone
AppQueries ==
    { [query_text |-> "q", query_media |-> None],
      [query_text |-> "", query_media |-> "q.png"] }

\* what the outside does in a run: whether MultimodalCrewAgents(...),
\* the RAG tools and RagToolManager() work, and the model's answer
Outside ==
    { [crew_ok |-> TRUE, tool_ok |-> TRUE, manager_ok |-> TRUE],
      [crew_ok |-> FALSE, tool_ok |-> TRUE, manager_ok |-> TRUE],
      [crew_ok |-> TRUE, tool_ok |-> FALSE, manager_ok |-> TRUE],
      [crew_ok |-> TRUE, tool_ok |-> TRUE, manager_ok |-> FALSE] }

FilenamesOf(list) == {list[k].filename : k \in DOMAIN list}
PathsOf(list) == [k \in DOMAIN list |-> list[k].path]

\* the sources the knowledge base holds
Sources(A) ==
    {FileSource(A.processed_files[k].path) : k \in DOMAIN A.processed_files}
        \cup A.rag_manager.rag_tool
        \cup {UrlSource(A.rag_manager.knowledge_base.youtube_videos[k].url) :
                 k \in DOMAIN A.rag_manager.knowledge_base.youtube_videos}

\* lines 118-128: every run with a key makes a new handler and a new crew
app_set_api_key(A, gemini_api_key, crew_ok) ==
    IF gemini_api_key = "" THEN A
    ELSE IF crew_ok
    THEN [A EXCEPT !.gemini_handler = gemini_api_key, !.crew_agents = NewCrew]
    ELSE [A EXCEPT !.gemini_handler = gemini_api_key, !.crew_agents = NoCrew,
                   !.use_crew = FALSE]

\* lines 131-134: the toggle
app_toggle(A, toggle) ==
    IF A.crew_agents.exists THEN [A EXCEPT !.use_crew = toggle] ELSE A

RECURSIVE app_upload(_, _, _)
\* lines 148-176: the upload loop
app_upload(A, uploaded_files, tool_ok) ==
    IF uploaded_files = <<>> \/ ~A.rag_manager.exists THEN A
    ELSE LET uploaded_file == Head(uploaded_files)
             temp_file_path == Path(uploaded_file.name)
             A1 == IF uploaded_file.name \in FilenamesOf(A.processed_files) THEN A
                   ELSE [A EXCEPT
                       !.rag_manager =
                           add_to_knowledge_base(@, temp_file_path, tool_ok),
                       !.processed_files =
                           Append(@, [filename |-> uploaded_file.name,
                                      path |-> temp_file_path,
                                      type |-> content_type(temp_file_path,
                                                            uploaded_file.content)]),
                       !.stale = @ \ {FileSource(temp_file_path)}]
         IN  app_upload(A1, Tail(uploaded_files), tool_ok)

\* lines 182-188: Add to Knowledge Base
app_add_web(A, web_url, clicked, tool_ok) ==
    IF A.rag_manager.exists /\ web_url # "" /\ clicked
    THEN [A EXCEPT !.rag_manager = add_web_content(@, web_url, tool_ok),
                   !.stale = IF tool_ok THEN @ \ {UrlSource(web_url)} ELSE @]
    ELSE A

\* line 141, 191, 208: the Clear Knowledge Base button is there and clicked
app_clears(A, clicked) ==
    A.rag_manager.exists /\ A.processed_files # <<>> /\ clicked

\* lines 208-218: Clear Knowledge Base
app_clear(A, clicked, manager_ok) ==
    IF app_clears(A, clicked)
    THEN [A EXCEPT !.processed_files = <<>>,
                   !.rag_manager = IF manager_ok THEN NewManager ELSE NoManager,
                   !.stale = @ \cup Sources(A)]
    ELSE A

\* lines 265-270: the query is taken up
app_submits(A, query_text, query_media, clicked) ==
    clicked /\ A.gemini_handler # None /\ (query_text # "" \/ query_media # None)

\* lines 279-295: the crew path is taken
crew_path(A) == A.use_crew /\ A.crew_agents.exists

\* the crew's rag_tool after process_multimodal_query got the files
crew_tool_after(A, query_media) ==
    crew_add_files(A.crew_agents.rag_tool,
                   PathsOf(A.processed_files)
                       \o (IF query_media # None THEN <<Path(query_media)>> ELSE <<>>))

\* lines 240-255: a rag_tool.add(...) of process_multimodal_query raises
crew_add_raises(A, query_media, tool_ok) ==
    /\ ~tool_ok
    /\ crew_add_files({}, PathsOf(A.processed_files)
           \o (IF query_media # None THEN <<Path(query_media)>> ELSE <<>>)) # {}

\* the sources the query's retrieval goes through
consulted(A, query_media, tool_ok) ==
    IF crew_path(A)
    THEN IF crew_add_raises(A, query_media, tool_ok) THEN {}
         ELSE crew_tool_after(A, query_media)
    ELSE manager_consults(A.rag_manager)

\* lines 277-314: the answer
app_response(A, query_text, query_media, outcome, tool_ok) ==
    IF crew_path(A)
    THEN IF outcome = "raise" \/ crew_add_raises(A, query_media, tool_ok)
         THEN "Error generating response: e\n\nPlease try again with a different query or check the system configuration."
         ELSE "crew result"
    ELSE IF query_media # None
    THEN IF outcome = "raise" THEN "Error processing multimodal query: e"
         ELSE Answer
    ELSE IF outcome = "raise" THEN "Error generating response: e" ELSE Answer

\* lines 265-320: Submit
app_submit(A, query_text, query_media, clicked, outcome, tool_ok) ==
    IF ~app_submits(A, query_text, query_media, clicked) THEN A
    ELSE LET user_content ==
                 IF query_text # "" THEN query_text
                 ELSE "Multimodal query with uploaded media"
             response == app_response(A, query_text, query_media, outcome, tool_ok)
         IN  [A EXCEPT
                 !.chat_history =
                     Append(Append(@, [role |-> "user", content |-> user_content]),
                            [role |-> "assistant", content |-> response]),
                 !.crew_agents.rag_tool =
                     IF crew_path(A) /\ ~crew_add_raises(A, query_media, tool_ok)
                     THEN crew_tool_after(A, query_media) ELSE @]

\* the script down to the Clear Knowledge Base button
app_sidebar(A, in, button) ==
    LET A1 == app_set_api_key(A, in.gemini_api_key, in.outside.crew_ok)
        A2 == app_toggle(A1, in.toggle)
        A3 == app_upload(A2, in.uploaded_files, in.outside.tool_ok)
    IN  app_add_web(A3, in.web_url, button = "add_web", in.outside.tool_ok)

\* one run of the script; st.experimental_rerun() ends the run at the Clear
\* button
app_script(A, in, button) ==
    LET A4 == app_sidebar(A, in, button)
    IN  IF app_clears(A4, button = "clear")
        THEN app_clear(A4, TRUE, in.outside.manager_ok)
        ELSE app_submit(A4, in.query_text, in.query_media, button = "submit",
                        in.outcome, in.outside.tool_ok)

\* lines 218, 320: st.experimental_rerun() after a clear and after an
\* answered query runs the script once more, the widgets as they are and no
\* button clicked
app_run(A, in, button) ==
    LET A4 == app_sidebar(A, in, button)
        A5 == app_script(A, in, button)
    IN  IF app_clears(A4, button = "clear")
           \/ app_submits(A4, in.query_text, in.query_media, button = "submit")
        THEN app_script(A5, in, "none")
        ELSE A5

AppSession ==
    [gemini_handler |-> gemini_handler, crew_agents |-> crew_agents,
     use_crew |-> use_crew, rag_manager |-> rag_manager,
     processed_files |-> processed_files, chat_history |-> chat_history,
     stale |-> stale]

AppWidgets ==
    [gemini_api_key : {"", "k1"}, toggle : BOOLEAN, uploaded_files : AppUploads,
     outside : Outside]

AppNoText == [web_url |-> "", query_text |-> "", query_media |-> None, outcome |-> "ok"]

AppBecomes(A, event) ==
    /\ gemini_handler' = A.gemini_handler
    /\ crew_agents' = A.crew_agents
    /\ use_crew' = A.use_crew
    /\ rag_manager' = A.rag_manager
    /\ processed_files' = A.processed_files
    /\ chat_history' = A.chat_history
    /\ stale' = A.stale
    /\ last' = event
    /\ UNCHANGED <<chunk_size, chunk_overlap, documents, doc_retrieval, shown>>

\* lines 31-60: the session state of a new session; RagToolManager() may
\* have raised, which leaves rag_manager None
InitApp ==
    /\ chunk_size = DefaultChunkSize
    /\ chunk_overlap = DefaultChunkOverlap
    /\ documents = <<>>
    /\ doc_retrieval = None
    /\ shown = <<>>
    /\ last = NoCall
    /\ gemini_handler = None
    /\ crew_agents = NoCrew
    /\ use_crew = FALSE
    /\ rag_manager \in {NewManager, NoManager}
    /\ processed_files = <<>>
    /\ chat_history = <<>>
    /\ stale = {}

AppRerun(w) ==
    AppBecomes(app_run(AppSession, w @@ AppNoText, "none"),
               [op |-> "run", button |-> "none"])

AppClickAddWeb(w, web_url) ==
    /\ Len(rag_manager.knowledge_base.web_pages)
           + Len(rag_manager.knowledge_base.youtube_videos) < MaxWeb
    /\ AppBecomes(app_run(AppSession, w @@ [AppNoText EXCEPT !.web_url = web_url], "add_web"),
               [op |-> "run", button |-> "add_web"])

AppClickClear(w) ==
    /\ app_clears(app_sidebar(AppSession, w @@ AppNoText, "clear"), TRUE)
    /\ AppBecomes(app_run(AppSession, w @@ AppNoText, "clear"),
                  [op |-> "run", button |-> "clear"])

AppClickSubmit(w, query_text, query_media, outcome) ==
    LET in == w @@ [web_url |-> "", query_text |-> query_text,
                    query_media |-> query_media, outcome |-> outcome]
        A4 == app_sidebar(AppSession, in, "submit")
    IN  /\ Len(chat_history) < MaxAppTurns
        /\ app_submits(A4, query_text, query_media, TRUE)
        /\ AppBecomes(app_run(AppSession, in, "submit"),
                      [op |-> "run", button |-> "submit",
                       consulted |-> consulted(A4, query_media, w.outside.tool_ok)])

NextApp ==
    \E w \in AppWidgets :
        \/ AppRerun(w)
        \/ \E web_url \in AppUrls : AppClickAddWeb(w, web_url)
        \/ AppClickClear(w)
        \/ \E q \in AppQueries, outcome \in {"ok", "raise"} :
               AppClickSubmit(w, q.query_text, q.query_media, outcome)

SpecApp == InitApp /\ [][NextApp]_vars

(***************************************************************************)
(* src/simple_app.py: one run of the script on the session state S, whose  *)
(* processed_files is a list.  The query field has no button: a run with   *)
(* text in it asks the question.                                           *)
(***************************************************************************)
\* lines 24-27: the retrieval object is made once, with the first key
simple_init(S, api_key) ==
    IF api_key # "" /\ S.doc_retrieval = None
    THEN [S EXCEPT !.doc_retrieval = api_key, !.documents = <<>>]
    ELSE S

RECURSIVE simple_upload(_, _)
\* lines 38-67: the upload loop
simple_upload(S, uploaded_files) ==
    IF uploaded_files = <<>> THEN S
    ELSE LET uploaded_file == Head(uploaded_files)
             temp_file_path == Path(uploaded_file.name)
             result == add_document(S.documents, temp_file_path, uploaded_file.content,
                                    chunk_size, chunk_overlap)
             S1 == IF uploaded_file.name \in FilenamesOf(S.processed_files)
                      \/ ~result.ret
                   THEN S
                   ELSE [S EXCEPT !.documents = result.documents,
                                  !.processed_files =
                                      Append(@, [filename |-> uploaded_file.name,
                                                 path |-> temp_file_path])]
         IN  simple_upload(S1, Tail(uploaded_files))

\* lines 24-67: the sidebar down to the Clear All Documents button
simple_sidebar(S, in) ==
    IF in.api_key = "" THEN S
    ELSE simple_upload(simple_init(S, in.api_key), in.uploaded_files)

\* lines 70, 76: the Clear All Documents button is there and clicked
simple_clears(S, in, clicked) ==
    in.api_key # "" /\ S.processed_files # <<>> /\ clicked

\* lines 76-78: Clear All Documents
simple_clear(S, in) ==
    [S EXCEPT !.doc_retrieval = in.api_key, !.documents = <<>>,
              !.processed_files = <<>>]

\* lines 85-105: the question is asked and both turns are appended
simple_query(S, in) ==
    IF S.doc_retrieval = None \/ in.query = "" THEN S
    ELSE [S EXCEPT !.chat_history =
             Append(Append(@, [role |-> "user", content |-> in.query]),
                    [role |-> "assistant",
                     content |-> query(S.documents, in.query, in.outcome)])]

\* one run of the script; st.experimental_rerun() ends the run at the Clear
\* button
simple_script(S, in, button) ==
    LET S1 == simple_sidebar(S, in)
    IN  IF simple_clears(S1, in, button = "clear") THEN simple_clear(S1, in)
        ELSE simple_query(S1, in)

\* line 79: after a clear the script runs once more, the widgets as they are
simple_run(S, in, button) ==
    IF simple_clears(simple_sidebar(S, in), in, button = "clear")
    THEN simple_script(simple_script(S, in, button), in, "none")
    ELSE simple_script(S, in, button)

SimpleWidgets ==
    [api_key : {"", "k1"}, uploaded_files : BatchUploads, query : {"", DocQuery},
     outcome : {"ok", "raise"}]

InitSimple ==
    /\ chunk_size = DefaultChunkSize
    /\ chunk_overlap = DefaultChunkOverlap
    /\ documents = <<>>
    /\ last = NoCall
    /\ gemini_handler = None
    /\ doc_retrieval = None
    /\ processed_files = <<>>
    /\ chat_history = <<>>
    /\ shown = <<>>
    /\ NoCrewApp

SimpleBecomes(S, event) ==
    /\ doc_retrieval' = S.doc_retrieval
    /\ documents' = S.documents
    /\ processed_files' = S.processed_files
    /\ chat_history' = S.chat_history
    /\ last' = event
    /\ UNCHANGED <<chunk_size, chunk_overlap, gemini_handler, shown>>
    /\ UNCHANGED crewVars

\* a widget changes
SimpleRun(w) ==
    /\ w.query # "" => Len(chat_history) < MaxTurns
    /\ SimpleBecomes(simple_run(Session, w, "none"),
                     [op |-> "upload", button |-> "none", batch |-> w.uploaded_files,
                      api_key |-> w.api_key, before |-> FilenamesOf(processed_files)])

SimpleClickClear(w) ==
    /\ w.query # "" => Len(chat_history) < MaxTurns
    /\ simple_clears(simple_sidebar(Session, w), w, TRUE)
    /\ SimpleBecomes(simple_run(Session, w, "clear"),
                     [op |-> "run", button |-> "clear"])

NextSimple == \E w \in SimpleWidgets : SimpleRun(w) \/ SimpleClickClear(w)

SpecSimple == InitSimple /\ [][NextSimple]_vars

(***************************************************************************)
(* Claims about the chunker (SpecChunk).                                   *)
(***************************************************************************)
RECURSIVE Reassemble(_, _)
\* the first chunk in full, then each later chunk without its first
\* `overlap` characters
Reassemble(chunks, overlap) ==
    IF chunks = <<>> THEN <<>>
    ELSE IF Len(chunks) = 1 THEN chunks[1]
    ELSE Reassemble(SubSeq(chunks, 1, Len(chunks) - 1), overlap)
             \o Drop(chunks[Len(chunks)], overlap)

Chunked == last.op = "chunk_text"

\* C1: for every non-empty text and every valid configuration, the chunks
\* returned by chunk_text, reassembled with the overlap removed (the first
\* chunk in full, each later chunk without its first chunk_overlap
\* characters), are the text again.
C1_Reassembles ==
    (Chunked /\ last.text # <<>>) =>
        (~last.raised /\ Reassemble(last.ret, chunk_overlap) = last.text)

\* a text cut into at least three chunks that overlap, the last one partial
C1_Witness ==
    /\ Chunked
    /\ chunk_overlap >= 1
    /\ Len(last.ret) >= 3
    /\ Len(last.ret[Len(last.ret)]) < chunk_overlap

\* C2: "hello world" with chunk_size 5 and chunk_overlap 1 is cut at the
\* window starts 0, 4, 8 into "hello", "o wor", "rld".
C2_HelloWorld ==
    (Chunked /\ last.text = HelloWorld /\ chunk_size = 5 /\ chunk_overlap = 1) =>
        /\ last.starts = <<0, 4, 8>>
        /\ last.ret = << <<"h", "e", "l", "l", "o">>,
                         <<"o", " ", "w", "o", "r">>,
                         <<"r", "l", "d">> >>

C2_Witness ==
    Chunked /\ last.text = HelloWorld /\ chunk_size = 5 /\ chunk_overlap = 1

\* C4 as stated: the first chunk_overlap characters of every chunk after
\* the first are exactly the last chunk_overlap characters of the chunk
\* before it, the final chunk included.
C4_OverlapAsStated ==
    Chunked =>
        \A i \in 1..(Len(last.ret) - 1) :
            Slice(last.ret[i + 1], 0, chunk_overlap)
                = LastChars(last.ret[i], chunk_overlap)

\* C4 as amended: a chunk of the full length chunk_size is followed by a
\* chunk whose first chunk_overlap characters are the last chunk_overlap
\* characters of that chunk; a shorter chunk that is not the last is
\* followed by itself without its first chunk_size - chunk_overlap
\* characters.
C4_Overlap ==
    Chunked =>
        \A i \in 1..(Len(last.ret) - 1) :
            IF Len(last.ret[i]) = chunk_size
            THEN /\ Len(last.ret[i + 1]) >= chunk_overlap
                 /\ Slice(last.ret[i + 1], 0, chunk_overlap)
                        = LastChars(last.ret[i], chunk_overlap)
            ELSE last.ret[i + 1] = Drop(last.ret[i], chunk_size - chunk_overlap)

\* a full chunk followed by a partial chunk followed by a shorter one
C4_Witness ==
    /\ Chunked
    /\ chunk_overlap >= 1
    /\ \E i \in 1..(Len(last.ret) - 2) :
          /\ Len(last.ret[i]) = chunk_size
          /\ Len(last.ret[i + 1]) < chunk_size
          /\ Len(last.ret[i + 2]) < chunk_overlap

(***************************************************************************)
(* Claims about the store (SpecStore, SpecAnyConfig).                      *)
(***************************************************************************)
Added == last.op = "add_document"

\* chunk is text[s : s + Len(chunk)] for some start s
IsSubstring(chunk, text) ==
    \E s \in 1..(Len(text) + 1) : SubSeq(text, s, s + Len(chunk) - 1) = chunk

GoodChunk(chunk, text) ==
    chunk # <<>> /\ Len(chunk) <= chunk_size /\ IsSubstring(chunk, text)

\* C3: every chunk chunk_text returns, and every chunk of every stored
\* document, is a non-empty contiguous substring of the text it was cut
\* from, at most chunk_size characters long.
C3_ChunksAreSubstrings ==
    /\ Chunked => \A k \in DOMAIN last.ret : GoodChunk(last.ret[k], last.text)
    /\ \A d \in DOMAIN documents :
          \A k \in DOMAIN documents[d].chunks :
              GoodChunk(documents[d].chunks[k], documents[d].full_text)

\* a stored document of several chunks, the last one shorter than chunk_size
C3_Witness ==
    \E d \in DOMAIN documents :
        /\ Len(documents[d].chunks) >= 2
        /\ Len(documents[d].chunks[1]) = chunk_size
        /\ Len(documents[d].chunks[Len(documents[d].chunks)]) < chunk_size

InvalidConfig == ~(chunk_size > chunk_overlap /\ chunk_overlap >= 0)

\* C5: under a configuration that violates chunk_size > chunk_overlap >= 0
\* no add_document succeeds, and no document is stored with an empty chunk
\* list.
C5_ConfigValidated ==
    InvalidConfig =>
        /\ Added => ~last.ret
        /\ \A d \in DOMAIN documents : documents[d].chunks # <<>>

\* C6: add_document on a file whose extracted text is empty returns failure
\* and leaves the documents unchanged; every stored document has a
\* non-empty full text.
C6_EmptyRejected ==
    /\ (Added /\ falsy(last.text)) => (~last.ret /\ last.unchanged)
    /\ \A d \in DOMAIN documents : documents[d].full_text # <<>>

\* a failed add of a supported file with empty text, on a store that holds
\* a document
C6_Witness ==
    /\ Added
    /\ ~last.text.none
    /\ last.text.text = <<>>
    /\ ~last.ret
    /\ documents # <<>>

\* C7: add_document for a name the store already holds returns failure and
\* leaves the documents as they were.
C7_DuplicateRejected ==
    (Added /\ last.present) => (~last.ret /\ last.unchanged)

\* C8: after a second add of a name the store holds, the number of chunks
\* stored for the name and the number of documents are what they were.
C8_IdempotentAdd ==
    (Added /\ last.present) =>
        /\ NChunks(documents, last.name) = last.chunks_before
        /\ Len(documents) = last.count_before

(***************************************************************************)
(* Claims about the combined application (SpecCombined).                   *)
(***************************************************************************)
Clicked(button) == last.op = "run" /\ last.button = button

ZeroStats ==
    [documents |-> 0, images |-> 0, audio |-> 0, video |-> 0, web_content |-> 0]

\* C9: once Clear Knowledge Base has been clicked, the five registries and
\* the retrieval object's documents are empty, and the counts the stats
\* section shows are all zero.
C9_ClearZeroes ==
    Clicked("clear") =>
        /\ processed_files = EmptyProcessed
        /\ documents = <<>>
        /\ shown = ZeroStats

(***************************************************************************)
(* Claims about the multimodal application (SpecApp).                      *)
(***************************************************************************)
\* C10: a query consults no source that was ingested before the latest
\* Clear Knowledge Base and has not been ingested again since, on the
\* direct path and on the crew path.
C10_NothingStaleConsulted ==
    Clicked("submit") => last.consulted \cap stale = {}

(***************************************************************************)
(* Claims about SimpleDocRetrieval.query (SpecQuery).                      *)
(***************************************************************************)
Queried == last.op = "query"

\* where a piece stands in a sequence of pieces
PositionsOf(pieces, piece) ==
    SelectSeq([i \in 1..Len(pieces) |-> i], LAMBDA i : pieces[i] = piece)

\* the context inside a prompt: what stands between its head and its
\* question line
ContextOf(prompt) ==
    SubSeq(prompt, 2, PositionsOf(prompt, PromptQuestion)[1] - 1)

\* the k-th document block of a context
BlockOf(context, k) ==
    LET marks == PositionsOf(context, DocumentLabel)
    IN  SubSeq(context, marks[k],
               IF k < Len(marks) THEN marks[k + 1] - 1 ELSE Len(context))

FirstChars(text) == [i \in 1..Min(ExcerptLength, Len(text)) |-> text[i]]
FinalChars(text) ==
    [i \in 1..Min(ExcerptLength, Len(text)) |->
        text[Len(text) - Min(ExcerptLength, Len(text)) + i]]

\* the block the claim describes for a document
DescribedBlock(entry) ==
    <<DocumentLabel, entry.name, Newline, BeginningLabel>>
        \o FirstChars(entry.chunks[1]) \o <<Ellipsis \o BlankLine>>
        \o (IF Len(entry.chunks) > 1
            THEN <<EndLabel, Ellipsis>>
                    \o FinalChars(entry.chunks[Len(entry.chunks)]) \o <<BlankLine>>
            ELSE <<>>)

\* C11: when the store holds no document, query returns the sentinel "No
\* documents have been added to the system." and the generation model is
\* not invoked.
C11_EmptySentinel ==
    (Queried /\ documents = <<>>) => (last.ret = NoDocuments /\ ~last.invoked)

C11_Witness ==
    Queried /\ documents = <<>> /\ ~last.invoked

\* C12: the context of a query holds one block per document of the store,
\* in insertion order, each with the document's name, the first 500
\* characters of its first chunk and, exactly when it has more than one
\* chunk, the last 500 characters of its final chunk.
C12_ContextBlocks ==
    (Queried /\ last.invoked) =>
        LET context == ContextOf(last.prompt)
        IN  /\ context[1] = ContextHeader
            /\ Len(PositionsOf(context, DocumentLabel)) = Len(documents)
            /\ \A k \in DOMAIN documents :
                   BlockOf(context, k) = DescribedBlock(documents[k])

C12_Witness ==
    /\ Queried /\ last.invoked
    /\ Len(documents) = 2
    /\ Len(documents[1].chunks) > 1
    /\ Len(documents[1].chunks[Len(documents[1].chunks)]) > ExcerptLength
    /\ Len(documents[2].chunks) = 1
    /\ Len(documents[2].chunks[1]) > ExcerptLength

\* C13: the context of a store of exactly one document with exactly one
\* chunk has no "Excerpt from end" part.
C13_NoEndExcerpt ==
    (Queried /\ Len(documents) = 1 /\ Len(documents[1].chunks) = 1) =>
        PositionsOf(ContextOf(last.prompt), EndLabel) = <<>>

C13_Witness ==
    /\ Queried /\ Len(documents) = 1 /\ Len(documents[1].chunks) = 1
    /\ Len(documents[1].chunks[1]) > ExcerptLength

Extracted == last.op = "extract"

\* the units of a file that extract, with text
GoodUnits(content) ==
    {k \in DOMAIN content.units : content.units[k].ok /\ content.units[k].text # <<>>}

\* C15: a file whose extension is outside the supported set is rejected
\* before chunking: extract_text_from_file gives None, process_file gives
\* an "Unsupported file type" failure, add_document returns False and the
\* store is unchanged.
C15_UnsupportedRejected ==
    (Added /\ lower(splitext(Path(last.name))) \notin {".pdf", ".txt", ".docx"}) =>
        /\ last.text.none
        /\ ~last.chunked
        /\ ~last.ret
        /\ last.unchanged
        /\ Len(documents) = last.count_before
        /\ lower(splitext(Path(last.name))) \notin supported_extensions =>
               LET result == process_file(Path(last.name), last.content)
               IN  ~result.success /\ result.error = "Unsupported file type"

\* d.exe, holding text, offered to a store that holds a document
C15_Witness ==
    /\ Added /\ last.name = "d.exe"
    /\ last.content.readable /\ GoodUnits(last.content) # {}
    /\ ~last.ret
    /\ documents # <<>>

\* C17: no exception leaves the extractors: process_file returns a record
\* with a success flag, and an error message when the flag is false;
\* extract_text_from_file returns a string or None.
C17_NothingEscapes ==
    Extracted =>
        /\ ~last.result.raised
        /\ last.result.success \in BOOLEAN
        /\ ~last.result.success => last.result.error # ""
        /\ ~last.text.raised
        /\ [none |-> last.text.none, text |-> last.text.text]
               = extract_text_from_file(Path(last.name), last.content)

\* a file that cannot be opened, and a PDF one of whose pages fails
C17_Witness ==
    /\ Extracted
    /\ \/ ~last.content.readable
       \/ AnyUnitFails(last.content)
    /\ last.name \in {"B.PDF", "a.txt", "e.pptx"}
    /\ ~last.result.success

\* C18: a failure on one unit of a PDF or PPTX does not abort the file: the
\* text of the units that extracted is in the content returned.
C18_UnitFailureKeepsRest ==
    (Extracted /\ lower(splitext(Path(last.name))) \in {".pdf", ".pptx"}
        /\ last.content.readable /\ AnyUnitFails(last.content)) =>
        \A k \in GoodUnits(last.content) :
            /\ last.result.success
            /\ IsSubstring(last.content.units[k].text, last.result.content)
            /\ lower(splitext(Path(last.name))) = ".pdf" =>
                   IsSubstring(last.content.units[k].text, last.text.text)

\* C19: a text-bearing file none of whose units gives usable text (a PDF of
\* pages with empty text) yields no text, and is not added as a document.
C19_EmptyContentRejected ==
    (Added /\ lower(splitext(Path(last.name))) \in {".pdf", ".txt", ".docx"}
        /\ last.content.readable /\ GoodUnits(last.content) = {}
        /\ ~AnyUnitFails(last.content)) =>
        /\ falsy(last.text)
        /\ ~last.ret
        /\ last.unchanged

(***************************************************************************)
(* Claims about RagToolManager and GeminiHandler (SpecManager).            *)
(***************************************************************************)
RecognizedExtensions ==
    {"pdf", "txt", "docx", "pptx", "png", "jpg", "jpeg", "mp3", "wav", "mp4"}

\* C16: a file with an unrecognized extension is rejected with a failure
\* result by add_to_knowledge_base and enters no registry of the knowledge
\* base.
C16_UnrecognizedNotRegistered ==
    (last.op = "add_to_knowledge_base"
        /\ extension(Path(last.name)) \notin RecognizedExtensions) =>
        /\ ~last.ret
        /\ rag_manager.knowledge_base = last.before

\* C20: generate_text_response sends the template around context and
\* prompt exactly when the context is not empty, and the raw prompt alone
\* when it is empty or no manager is given.
C20_TemplateIffContext ==
    last.op = "generate_text_response" =>
        /\ (last.sent[1] = TemplateHead) <=> (last.context # <<>>)
        /\ last.context # <<>> =>
               /\ SubSeq(last.sent, 2, Len(last.context) + 1) = last.context
               /\ SubSeq(last.sent, Len(last.context) + 2, Len(last.sent))
                      = <<TemplateMid, last.prompt, TemplateTail>>
        /\ last.context = <<>> => last.sent = <<last.prompt>>
        /\ ~last.given => last.context = <<>>

\* a response with a manager whose tools found something, and one without
\* a manager
C20_Witness ==
    /\ last.op = "generate_text_response"
    /\ last.given
    /\ Len(last.context) > 1
    /\ rag_manager.knowledge_base.documents # <<>>

C20_WitnessNoManager ==
    /\ last.op = "generate_text_response"
    /\ ~last.given
    /\ last.sent = <<last.prompt>>

\* the media the handler is to send on, by the file's kind
SupportedMedia == {"p.png", "s.mp3", "v.mp4"}
CategoryOf(name) ==
    CASE name = "p.png" -> "image" [] name = "s.mp3" -> "audio"
      [] name = "v.mp4" -> "video" [] OTHER -> "other"

Multimodal == last.op = "generate_multimodal_response"

\* what the claim says of one call
MediaDispatch ==
    /\ last.name \notin SupportedMedia =>
           (last.ret = UnsupportedMedia /\ last.requests = NoRequests)
    /\ last.name \in SupportedMedia =>
           /\ Len(last.requests) = 1
           /\ major_type(last.requests[1].mime_type) = CategoryOf(last.name)
           /\ last.requests[1].data = last.content
           /\ \E i \in DOMAIN last.requests[1].prompt_text :
                  last.requests[1].prompt_text[i]
                      = IF last.prompt # "" THEN last.prompt ELSE DefaultMediaPrompt

\* C21 as stated: a media file outside image/audio/video yields
\* "Unsupported media type." without a call of the model, and a supported
\* one yields exactly one request with the prompt text, the file's bytes
\* and its MIME type.
C21_MediaDispatchAsStated == Multimodal => MediaDispatch

\* C21, for a file that can be read: the above; a file that cannot be read
\* yields "Error processing multimodal query: ..." and no request, whatever
\* its type.
C21_MediaDispatch ==
    Multimodal =>
        /\ last.content.readable => MediaDispatch
        /\ ~last.content.readable =>
               (last.ret = "Error processing multimodal query: e"
                   /\ last.requests = NoRequests)

C21_Witness ==
    /\ Multimodal /\ last.content.readable
    /\ last.name = "b.pdf" /\ last.given
    /\ rag_manager.knowledge_base.documents # <<>>

\* C22: a query returns a string and lets no exception through: a failure
\* of the model call becomes "Error generating response: ..." on the text
\* path, "Error processing multimodal query: ..." on the multimodal path
\* and "Error querying documents: ..." in SimpleDocRetrieval.query, and
\* further calls are accepted afterwards.
C22_FaultsBecomeStrings ==
    /\ last.op = "generate_text_response" =>
           /\ ~last.raised
           /\ last.outcome = "raise" => last.ret = "Error generating response: e"
           /\ last.outcome # "raise" => last.ret = response_text(last.outcome)
    /\ Multimodal =>
           /\ ~last.raised
           /\ (last.outcome = "raise" /\ last.requests # NoRequests) =>
                  last.ret = "Error processing multimodal query: e"
           /\ (last.outcome # "raise" /\ last.requests # NoRequests) =>
                  last.ret = response_text(last.outcome)
    /\ Queried =>
           /\ ~last.raised
           /\ (last.outcome = "raise" /\ last.invoked) =>
                  last.ret = "Error querying documents: e"
           /\ (last.outcome # "raise" /\ last.invoked) =>
                  last.ret = response_text(last.outcome)
    /\ ENABLED NextHandler

\* the model call of a multimodal query failed
C22_Witness ==
    /\ Multimodal /\ last.outcome = "raise" /\ Len(last.requests) = 1
    /\ last.ret = "Error processing multimodal query: e"

(***************************************************************************)
(* Claims about the registries and the transcript.                         *)
(***************************************************************************)
\* no two entries of the list have the same value under Key
Distinct(list, Key(_)) ==
    \A i, j \in DOMAIN list : Key(list[i]) = Key(list[j]) => i = j

FilenameOfEntry(entry) == entry.filename
UrlOfEntry(entry) == entry.url

\* C23: adding a media file or a URL that is already present changes no
\* registry: no registry of images, audio, video, web pages or video pages
\* holds two entries with the same name or URL.
C23_NoDuplicateReferences ==
    /\ Distinct(rag_manager.knowledge_base.images, FilenameOfEntry)
    /\ Distinct(rag_manager.knowledge_base.audio, FilenameOfEntry)
    /\ Distinct(rag_manager.knowledge_base.video, FilenameOfEntry)
    /\ Distinct(rag_manager.knowledge_base.web_pages, UrlOfEntry)
    /\ Distinct(rag_manager.knowledge_base.youtube_videos, UrlOfEntry)

\* C24: the transcript is append-only: every step leaves the turns there
\* were in place, whatever is uploaded, asked or cleared.
C24_AppendOnly ==
    [][/\ Len(chat_history) <= Len(chat_history')
       /\ SubSeq(chat_history', 1, Len(chat_history)) = chat_history]_vars

\* a clear on a session that has a transcript and documents
C24_Witness ==
    /\ Clicked("clear")
    /\ Len(chat_history) >= 2
    /\ shown.documents > 0

\* C25: while no API key has been set, no upload changes a registry of the
\* knowledge base and no query changes the transcript.
C25_NothingWithoutKey ==
    gemini_handler = None =>
        /\ processed_files = EmptyProcessed
        /\ documents = <<>>
        /\ chat_history = <<>>

\* C29: every accepted query appends the user turn and then the assistant
\* turn: the transcript has even length and its roles alternate, starting
\* with user.
C29_TurnsAlternate ==
    /\ Len(chat_history) % 2 = 0
    /\ \A i \in DOMAIN chat_history :
           chat_history[i].role = IF i % 2 = 1 THEN "user" ELSE "assistant"

(***************************************************************************)
(* Claims about batch uploads (SpecUpload).                                *)
(***************************************************************************)
\* the file gives text
Extracts(file) == ~falsy(extract_text_from_file(Path(file.name), file.content))

\* C26: a file of a batch that fails to extract does not abort the batch:
\* the failure is reported for that file, and every file of the batch that
\* extracts is processed and ends up in the store.
C26_BatchSurvivesFailure ==
    (last.op = "upload" /\ doc_retrieval # None) =>
        \A k \in DOMAIN last.batch :
            LET file == last.batch[k]
            IN  file.name \notin last.before =>
                    /\ Extracts(file) =>
                           /\ file.name \in DictKeys(documents)
                           /\ file.name \in NamesOf(processed_files.documents)
                           /\ last.messages[k] = "Document processed"
                    /\ ~Extracts(file) =>
                           /\ file.name \notin NamesOf(processed_files.documents)
                           /\ last.messages[k] = "Failed to process document"

\* a batch of three whose second file fails
C26_Witness ==
    /\ last.op = "upload" /\ doc_retrieval # None
    /\ last.messages = <<"Document processed", "Failed to process document",
                         "Document processed">>
    /\ Len(documents) = 2

\* the upload loop of simple_app.py: every file of a batch that extracts
\* ends up in the store, and no file that fails does
SimpleBatchSurvivesFailure ==
    (last.op = "upload" /\ "api_key" \in DOMAIN last /\ last.api_key # "") =>
        \A k \in DOMAIN last.batch :
            LET file == last.batch[k]
            IN  file.name \notin last.before =>
                    /\ Extracts(file) =>
                           /\ file.name \in DictKeys(documents)
                           /\ file.name \in FilenamesOf(processed_files)
                    /\ ~Extracts(file) =>
                           file.name \notin FilenamesOf(processed_files)

\* ceil(a / b) for b >= 1
CeilDiv(a, b) == (a + b - 1) \div b

\* C27: for a text of length L >= 1 under a valid configuration, with
\* step = chunk_size - chunk_overlap, chunk_text returns exactly
\* ceil(L / step) chunks, the k-th chunk (k from 0) is
\* text[k*step : k*step + chunk_size], the window starts increase, and the
\* result is determined by the inputs.
C27_WindowFormula ==
    (Chunked /\ Len(last.text) >= 1) =>
        LET step == chunk_size - chunk_overlap
            n    == CeilDiv(Len(last.text), step)
        IN  /\ ~last.raised
            /\ Len(last.ret) = n
            /\ Len(last.starts) = n
            /\ \A k \in 0..(n - 1) :
                  /\ last.starts[k + 1] = k * step
                  /\ last.ret[k + 1]
                       = Slice(last.text, k * step, k * step + chunk_size)
            /\ \A k \in 1..(n - 1) : last.starts[k] < last.starts[k + 1]
            /\ last.ret = [k \in 1..n |->
                              Slice(last.text, (k - 1) * step,
                                    (k - 1) * step + chunk_size)]

\* a text whose length is not a multiple of the step, cut into four or more
\* overlapping chunks
C27_Witness ==
    /\ Chunked
    /\ chunk_overlap >= 1
    /\ Len(last.text) % (chunk_size - chunk_overlap) # 0
    /\ Len(last.ret) >= 4

\* C28: in the combined application the document names tracked in
\* processed_files["documents"] are the document names held by the current
\* store, also after the API key is changed to a different value.
C28_TrackedIsStored ==
    doc_retrieval # None =>
        NamesOf(processed_files.documents) = DictKeys(documents)

\* C30: when generate_text_response is given a manager whose knowledge base
\* is empty, or whose tools return nothing, the prompt sent to the model is
\* the raw user prompt: the manager's "No relevant information found in the
\* knowledge base." is not put into the prompt as context.
C30_NothingFoundSendsRawPrompt ==
    (last.op = "generate_text_response" /\ last.given
       /\ last.context = <<NoRelevant>>) =>
        /\ last.sent = <<last.prompt>>
        /\ \A k \in DOMAIN last.sent : last.sent[k] # NoRelevant

====
